---- MODULE Spec2Model ----
(***************************************************************************)
(* The publish-with-conflict-resolution workflow of automated_publishing.py *)
(* (search -> delete -> poll-until-gone -> publish -> configure -> share), *)
(* run over the list of selected items against a portal.                   *)
(*                                                                         *)
(* The portal is the environment.  A service that was asked to be deleted  *)
(* stays visible to searches until the portal has finished removing it;    *)
(* when that happens is the portal's choice and is observed by the next    *)
(* search.  A portal call either returns or raises.  A publish call that    *)
(* raises may still have created the service: the conflict branch of the   *)
(* main loop, which deletes what it finds after a failed publish, is there *)
(* for that case.  CONFIG is never written: the share level is the same    *)
(* for the whole run, and is fixed in the model when line 233 first reads  *)
(* it.                                                                     *)
(***************************************************************************)
EXTENDS Integers, Sequences, FiniteSets, TLC

\* ---- bounds of the model ----
MaxItems == 2          \* longest list of selected items
MaxPre == 2            \* most services of one title in the portal at the start
MaxLatency == 180      \* longest time (s) an existence query of the poll takes
MaxOther == 1          \* most services another client of the portal publishes
MaxUsers == 2          \* most users the portal returns to the audit

\* ---- program constants ----
TIMEOUT == 180         \* wait_for_service_deletion(service_name, timeout=180)
INTERVAL == 5          \* time.sleep(5)
DELETE_MAX_ITEMS == 10 \* max_items of the search in delete_existing_service
CHECK_MAX_ITEMS == 1   \* max_items of the existence queries
inactive_threshold == 70   \* CONFIG["inactive_threshold"], in days
ARCHIVE_ABOVE == 5     \* `if content_count > 5`
DAY == 24              \* hours of a day of timedelta.days

Names == {"n1", "n2"}
ShareLevels == {"public", "org", "private"}
None == 0

VARIABLES
    selected_items,     \* the service names of the selected items, in selection order
    share_level,        \* CONFIG["default_share_level"], "unread" until line 233 first reads it
    portal,             \* the feature services of the current user visible in the portal
    nextId,             \* id the portal gives to the next service it creates
    idx,                \* position of the main loop in selected_items
    pc,                 \* position of the script inside the loop body
    fs,                 \* the variable fs of the loop body (None or a service id)
    elapsed,            \* time.time() - start_time inside wait_for_service_deletion
    sleeps,             \* calls of time.sleep made by the running wait_for_service_deletion
    req,                \* what has happened for the request in progress or, between
                        \* two requests, for the one that has just finished
    results,            \* name and outcome of every finished request, in order
    published_services, \* the list published_services
    others,             \* services published by another client of the portal
    health,             \* the run of service_health_check.py
    audit               \* the run of the user loop of user_management.py

vars == <<selected_items, share_level, portal, nextId, idx, pc, fs, elapsed,
          sleeps, req, results, published_services, others, health, audit>>

\* ---- helpers over sequences and the portal ----
Range(s) == {s[i] : i \in 1..Len(s)}

Take(s, n) == SubSeq(s, 1, IF n < Len(s) THEN n ELSE Len(s))

MinId(S) == CHOOSE i \in S : \A j \in S : i <= j

RECURSIVE SortIds(_)
SortIds(S) == IF S = {} THEN <<>> ELSE <<MinId(S)>> \o SortIds(S \ {MinId(S)})

\* ids of the services titled name that a search sees in portal state P
Matches(P, name) == {s.id : s \in {t \in P : t.title = name}}

\* gis.content.search(query=title AND owner, item_type="Feature Service", max_items=max)
Search(P, name, max) == Take(SortIds(Matches(P, name)), max)

\* the portal states a search for name may find: any of the pending deletions of
\* services with that title may have completed since the last call
Settled(P, name) ==
    {P \ gone : gone \in SUBSET {s \in P : s.st = "deleting" /\ s.title = name}}

service_name == selected_items[idx]

\* the record of a request that has just begun
NewReq == [existing |-> FALSE,     \* truth value of `existing` at line 191
           preMatches |-> {},      \* the matching services in the portal at that query
           prePending |-> {},      \* those of them whose deletion was already requested
           lastQuery |-> "none",   \* what the latest existence query returned
           cycles |-> 0,           \* calls of delete_existing_service
           deleteLog |-> <<>>,     \* the item.delete() calls, in order
           lastSearch |-> <<>>,    \* search_results of the latest delete_existing_service
           delRet |-> "none",      \* what the latest delete_existing_service returned
           pubLog |-> <<>>,        \* the item.publish calls, in order
           timeoutAt |-> -1,       \* publish calls made when a poll timed out
           delFailAt |-> -1,       \* publish calls made when an item.delete() raised
           defn |-> "none",        \* outcome of update_definition
           share |-> "none",       \* outcome of fs.share
           shareArgs |-> "none",   \* arguments of fs.share
           service |-> None,       \* the service appended to published_services
           outcome |-> "none"]

\* services of the initial portal: pre[n] live services for each title n (the
\* services with other titles than the selected ones are seen by no query)
RECURSIVE InitialPortal(_, _, _)
InitialPortal(pre, names, first) ==
    IF names = {} THEN {}
    ELSE LET n == CHOOSE x \in names : TRUE
         IN {[id |-> first + k - 1, title |-> n, st |-> "live"] : k \in 1..pre[n]}
            \cup InitialPortal(pre, names \ {n}, first + pre[n])

\* service_health_check.py before its first statement has run
HealthStart == [pc |-> "websites",
                website_results |-> <<>>,  \* the list website_results
                arcgis_result |-> [status |-> "none", error |-> ""],
                                           \* arcgis_result of publish_test_layer
                pdf_report |-> FALSE,      \* generate_pdf_report has returned
                emails |-> <<>>]           \* the calls of send_email, in order

\* user_management.py before the loop over all_users, for the users the portal
\* returned
AuditStart(all_users) == [all_users |-> all_users,
                          now |-> 2 * (inactive_threshold + 1) * DAY,
                                                \* datetime.now(timezone.utc)
                          user_data |-> <<>>]   \* the rows of user_data

RECURSIVE SumPre(_, _)
SumPre(pre, names) ==
    IF names = {} THEN 0
    ELSE LET n == CHOOSE x \in names : TRUE IN pre[n] + SumPre(pre, names \ {n})

Init ==
    /\ \E n \in 1..MaxItems : selected_items \in [1..n -> Names]
    /\ selected_items[1] = "n1"     \* the two names are interchangeable
    /\ share_level = "unread"
    /\ \E pre \in [Names -> 0..MaxPre] :
          /\ \A n \in Names : pre[n] > 0 => n \in Range(selected_items)
          /\ portal = InitialPortal(pre, Names, 1)
          /\ nextId = SumPre(pre, Names) + 1
    /\ idx = 1
    /\ pc = "check"
    /\ fs = None
    /\ elapsed = 0
    /\ sleeps = 0
    /\ req = NewReq
    /\ results = <<>>
    /\ published_services = <<>>
    /\ others = 0
    /\ health = HealthStart
    /\ audit = AuditStart(<<>>)

\* ---- variants of the code, each a plausible slip, used to test the properties ----
\* `break` where the code has `continue`
NextItem_Break(r) ==
    /\ results' = Append(results, [name |-> service_name, outcome |-> r.outcome,
                                   service |-> r.service])
    /\ idx' = idx + 1
    /\ pc' = IF idx + 1 > Len(selected_items) \/ r.outcome # "Published"
                THEN "done" ELSE "check"
    /\ fs' = None
    /\ elapsed' = 0
    /\ sleeps' = 0
    /\ req' = r

\* the result of wait_for_service_deletion is not tested
SkipOnTimeout_Ignored(r) ==
    /\ pc' = IF pc = "wait1" THEN "publish1" ELSE "publish2"
    /\ req' = r
    /\ elapsed' = 0
    /\ sleeps' = 0
    /\ UNCHANGED <<idx, fs, results>>

\* the result of delete_existing_service is not tested
SkipOnDeleteFailed_Ignored(r) ==
    /\ pc' = IF pc = "delete1" THEN "wait1" ELSE "wait2"
    /\ req' = r
    /\ elapsed' = 0
    /\ sleeps' = 0
    /\ UNCHANGED <<idx, fs, results>>

\* the deletion is run whatever the existence query returned
AfterCheck_AlwaysDelete(existing) == "delete1"

\* wait_for_service_deletion returns True without looking at the query's result
Confirmed_Always(search_results) == TRUE

\* `if search_results: return True`
Confirmed_Inverted(search_results) == search_results # <<>>

\* `while time.time() - start_time <= timeout`
WithinTimeout_Inclusive(t) == t <= TIMEOUT

\* `continue` where the except block of the for loop has `return False`
DeleteCalls_ContinueAfterFailure(search_results, k) ==
    [i \in 1..Len(search_results) |-> [id |-> search_results[i], ok |-> (i # k + 1)]]

\* the result of the publishing test is left out of the failures
Failures_WebsitesOnly(website_results, arcgis_result) ==
    SelectSeq(website_results, LAMBDA r : r.status # "SUCCESS")

\* `days_inactive >= inactive_threshold`
suggested_action_AtThreshold(last_login, days_inactive, content_count) ==
    IF last_login = "Never Logged In" \/ days_inactive >= inactive_threshold
       THEN IF content_count > 0
               THEN IF content_count > ARCHIVE_ABOVE
                       THEN "Archive content and delete user"
                       ELSE "Delete both content and user"
               ELSE "Delete user"
       ELSE "Do nothing"

\* the conflict branch is a loop: every failed publish starts another cycle
AfterPublish_RetryAgain(at, f) == IF f # None THEN "config" ELSE "delete2"

\* the branches of the share level test are exchanged
ShareArgs_Exchanged(level) ==
    IF level = "public" THEN [everyone |-> FALSE, org |-> TRUE]
    ELSE IF level = "org" THEN [everyone |-> TRUE, org |-> FALSE]
    ELSE [everyone |-> FALSE, org |-> FALSE]

\* the publish call is held back while the portal holds a service of the name
PublishReached_WhenAbsent(at) ==
    at \in {"publish1", "publish2"} /\ Matches(portal, service_name) = {}

\* a failed definition update gives the service up
AfterDefinition_GiveUp(ok) == IF ok THEN "share" ELSE "report"

\* ---- leaving the loop body ----
\* `continue`, or the end of the loop body: the next selected item, if any
NextItem(r) ==
    /\ results' = Append(results, [name |-> service_name, outcome |-> r.outcome,
                                   service |-> r.service])
    /\ idx' = idx + 1
    /\ pc' = IF idx + 1 > Len(selected_items) THEN "done" ELSE "check"
    /\ fs' = None
    /\ elapsed' = 0
    /\ sleeps' = 0
    /\ req' = r

\* "Timeout waiting for deletion ... Skipping this item." and `continue`
SkipOnTimeout(r) == NextItem([r EXCEPT !.outcome = "SkippedTimeout"])

\* "Could not delete existing service ... Skipping this item." and `continue`
SkipOnDeleteFailed(r) == NextItem([r EXCEPT !.outcome = "Failed"])

\* an exception nothing catches ends the script (the locals of the frames it
\* leaves are gone)
Crash ==
    /\ pc' = "crashed"
    /\ fs' = None
    /\ elapsed' = 0
    /\ sleeps' = 0
    /\ UNCHANGED <<idx, results, published_services>>

\* ---- the existence check at the head of the loop body ----
\* `if existing:` sends the loop body into the deletion, else to the publish
AfterCheck(existing) == IF existing # <<>> THEN "delete1" ELSE "publish1"

CheckExisting ==
    /\ pc = "check"
    /\ nextId' = nextId
    /\ \/ /\ Crash
          /\ req' = NewReq
          /\ UNCHANGED portal
       \/ \E P \in Settled(portal, service_name) :
             LET existing == Search(P, service_name, CHECK_MAX_ITEMS)
             IN /\ portal' = P
                /\ req' = [NewReq EXCEPT
                              !.existing = (existing # <<>>),
                              !.preMatches = Matches(P, service_name),
                              !.prePending = {s.id : s \in {t \in P :
                                   t.title = service_name /\ t.st = "deleting"}},
                              !.lastQuery = IF existing = <<>> THEN "empty" ELSE "match"]
                /\ pc' = AfterCheck(existing)
                /\ UNCHANGED <<idx, fs, elapsed, sleeps, results, published_services>>
    /\ UNCHANGED <<others, health, audit>>
    /\ UNCHANGED <<selected_items, share_level>>

\* ---- delete_existing_service ----
\* the portal after item.delete() returned for the services ids
MarkDeleting(P, ids) ==
    {IF s.id \in ids THEN [s EXCEPT !.st = "deleting"] ELSE s : s \in P}

\* the item.delete() calls of one run of the for loop: the first k return, and
\* the one after them, if there is one, raises
DeleteCalls(search_results, k) ==
    [i \in 1..(IF k < Len(search_results) THEN k + 1 ELSE k) |->
        [id |-> search_results[i], ok |-> (i <= k)]]

\* where the main loop goes when delete_existing_service has returned True
AfterDelete(at) == IF at = "delete1" THEN "wait1" ELSE "wait2"

delete_existing_service ==
    /\ pc \in {"delete1", "delete2"}
    /\ nextId' = nextId
    /\ \/ /\ Crash
          /\ UNCHANGED <<portal, req>>
       \/ \E P \in Settled(portal, service_name) :
             LET search_results == Search(P, service_name, DELETE_MAX_ITEMS)
             IN \E k \in 0..Len(search_results) :
                   LET calls == DeleteCalls(search_results, k)
                       raised == k < Len(search_results)
                       r == [req EXCEPT !.cycles = @ + 1,
                                        !.deleteLog = @ \o calls,
                                        !.lastSearch = search_results,
                                        !.delRet = IF raised THEN "False" ELSE "True",
                                        !.delFailAt = IF raised THEN Len(req.pubLog) ELSE @]
                   IN /\ portal' = MarkDeleting(P, {search_results[i] : i \in 1..k})
                      /\ IF raised
                            THEN /\ SkipOnDeleteFailed(r)
                                 /\ UNCHANGED published_services
                            ELSE /\ pc' = AfterDelete(pc)
                                 /\ req' = r
                                 /\ elapsed' = 0
                                 /\ sleeps' = 0
                                 /\ UNCHANGED <<idx, fs, results, published_services>>
    /\ UNCHANGED <<others, health, audit>>
    /\ UNCHANGED <<selected_items, share_level>>

\* ---- wait_for_service_deletion ----
\* `if not search_results: return True`
Confirmed(search_results) == search_results = <<>>

\* `while time.time() - start_time < timeout`
WithinTimeout(t) == t < TIMEOUT

\* where the main loop goes when wait_for_service_deletion has returned True
AfterWait(at) == IF at = "wait1" THEN "publish1" ELSE "publish2"

\* the clock reading, kept up to the timeout: the loop only compares it with it
Clock(t) == IF t < TIMEOUT THEN t ELSE TIMEOUT

\* one turn of the while loop: the query, then return True or sleep
PollStep ==
    /\ pc \in {"wait1", "wait2"}
    /\ WithinTimeout(elapsed)
    /\ nextId' = nextId
    /\ \/ /\ Crash
          /\ UNCHANGED <<portal, req>>
       \/ \E P \in Settled(portal, service_name), d \in {0, MaxLatency} :
             LET search_results == Search(P, service_name, CHECK_MAX_ITEMS)
             IN /\ portal' = P
                /\ req' = [req EXCEPT !.lastQuery =
                              IF search_results = <<>> THEN "empty" ELSE "match"]
                /\ IF Confirmed(search_results)
                      THEN /\ pc' = AfterWait(pc)
                           /\ elapsed' = 0
                           /\ sleeps' = 0
                      ELSE /\ pc' = pc
                           /\ elapsed' = Clock(elapsed + d + INTERVAL)
                           /\ sleeps' = sleeps + 1
                /\ UNCHANGED <<idx, fs, results, published_services>>
    /\ UNCHANGED <<others, health, audit>>
    /\ UNCHANGED <<selected_items, share_level>>

\* the while condition fails: return False, and the main loop skips the item
PollTimeout ==
    /\ pc \in {"wait1", "wait2"}
    /\ ~WithinTimeout(elapsed)
    /\ SkipOnTimeout([req EXCEPT !.timeoutAt = Len(req.pubLog)])
    /\ UNCHANGED <<others, health, audit>>
    /\ UNCHANGED <<selected_items, share_level, portal, nextId, published_services>>

\* ---- publish_feature_service ----
\* what publish_feature_service returns when item.publish returned svc and the
\* metadata update inside the same try block returned (metaOk) or raised
PublishReturn(svc, metaOk) == IF metaOk THEN svc ELSE None

\* where the main loop goes with the value f of fs after a publish
AfterPublish(at, f) ==
    IF f # None THEN "config"
    ELSE IF at = "publish1" THEN "delete2" ELSE "report"

\* the entry of pubLog for an item.publish call: svc is what item.publish
\* returned, left the service the call left in the portal, ret the value of
\* publish_feature_service
PublishCall(svc, left, meta, ret) ==
    [svc |-> svc, left |-> left, meta |-> meta, ret |-> ret,
     cycles |-> req.cycles, deletes |-> Len(req.deleteLog),
     lastQuery |-> req.lastQuery,
     present |-> Matches(portal, service_name) # {}]

\* the loop body calls publish_feature_service as soon as it gets there: no
\* lock is taken and the portal is not asked again
PublishReached(at) == at \in {"publish1", "publish2"}

publish_feature_service ==
    /\ PublishReached(pc)
    /\ \/ \* item.publish returns None or raises, and the portal holds nothing new
          /\ fs' = None
          /\ req' = [req EXCEPT !.pubLog = Append(@, PublishCall(None, None, "none", None))]
          /\ UNCHANGED <<portal, nextId>>
       \/ \* item.publish raises although the portal has created the service
          /\ fs' = None
          /\ portal' = portal \cup {[id |-> nextId, title |-> service_name, st |-> "live"]}
          /\ nextId' = nextId + 1
          /\ req' = [req EXCEPT !.pubLog = Append(@, PublishCall(None, nextId, "none", None))]
       \/ \* item.publish returns the new service; published_item.update returns or raises
          \E metaOk \in BOOLEAN :
             /\ fs' = PublishReturn(nextId, metaOk)
             /\ portal' = portal \cup {[id |-> nextId, title |-> service_name, st |-> "live"]}
             /\ nextId' = nextId + 1
             /\ req' = [req EXCEPT !.pubLog = Append(@,
                           PublishCall(nextId, nextId, IF metaOk THEN "ok" ELSE "failed",
                                       fs'))]
    /\ pc' = AfterPublish(pc, fs')
    /\ UNCHANGED <<others, health, audit>>
    /\ UNCHANGED <<selected_items, share_level, idx, elapsed, sleeps, results,
                   published_services>>

\* ---- the configuration of a published service ----
\* the except block of the definition update only logs: the sharing comes next
AfterDefinition(ok) == "share"

\* FeatureLayerCollection(fs.url, gis).manager.update_definition(...) in its try block
UpdateDefinition ==
    /\ pc = "config"
    /\ \E ok \in BOOLEAN :
          /\ req' = [req EXCEPT !.defn = IF ok THEN "ok" ELSE "failed"]
          /\ pc' = AfterDefinition(ok)
    /\ UNCHANGED <<others, health, audit>>
    /\ UNCHANGED <<selected_items, share_level, portal, nextId, idx, fs, elapsed,
                   sleeps, results, published_services>>

\* the arguments of fs.share for a share level
ShareArgs(level) ==
    IF level = "public" THEN [everyone |-> TRUE, org |-> FALSE]
    ELSE IF level = "org" THEN [everyone |-> FALSE, org |-> TRUE]
    ELSE [everyone |-> FALSE, org |-> FALSE]

\* the list published_services after the sharing of f returned (ok) or raised
AppendPublished(list, f, ok) == Append(list, f)

\* fs.share(...) in its try block, then published_services.append(fs)
Share ==
    /\ pc = "share"
    /\ share_level' \in (IF share_level = "unread" THEN ShareLevels ELSE {share_level})
    /\ \E ok \in BOOLEAN :
          /\ published_services' = AppendPublished(published_services, fs, ok)
          /\ NextItem([req EXCEPT !.share = IF ok THEN "ok" ELSE "failed",
                                  !.shareArgs = ShareArgs(share_level'),
                                  !.service = fs,
                                  !.outcome = "Published"])
    /\ UNCHANGED <<others, health, audit>>
    /\ UNCHANGED <<selected_items, portal, nextId>>

\* `else: print("Failed to publish ...")`
ReportFailure ==
    /\ pc = "report"
    /\ NextItem([req EXCEPT !.outcome = "SkippedConflict"])
    /\ UNCHANGED <<others, health, audit>>
    /\ UNCHANGED <<selected_items, share_level, portal, nextId, published_services>>

Next ==
    \/ CheckExisting
    \/ delete_existing_service
    \/ PollStep
    \/ PollTimeout
    \/ publish_feature_service
    \/ UpdateDefinition
    \/ Share
    \/ ReportFailure

Spec == Init /\ [][Next]_vars

\* ---- the portal with a second client ----
\* another client of the same account publishes a service under one of the
\* names the script works on; the portal serialises nothing between the
\* script's calls, so this may happen between any two of them
OtherActorPublishes ==
    /\ others < MaxOther
    /\ pc \notin {"done", "crashed"}
    /\ \E n \in Range(selected_items) :
          portal' = portal \cup {[id |-> nextId, title |-> n, st |-> "live"]}
    /\ nextId' = nextId + 1
    /\ others' = others + 1
    /\ UNCHANGED <<selected_items, share_level, idx, pc, fs, elapsed, sleeps, req,
                   results, published_services, health, audit>>

\* one request is enough to show every window of the loop body
InitRace == Init /\ Len(selected_items) = 1

NextRace == Next \/ OtherActorPublishes

SpecRace == InitRace /\ [][NextRace]_vars

\* ---- service_health_check.py ----
\* the publishing script has not been started
PublishNotStarted ==
    /\ selected_items = <<"n1">>
    /\ share_level = "unread"
    /\ portal = {}
    /\ nextId = 1
    /\ idx = 1
    /\ pc = "check"
    /\ fs = None
    /\ elapsed = 0
    /\ sleeps = 0
    /\ req = NewReq
    /\ results = <<>>
    /\ published_services = <<>>
    /\ others = 0

publishVars == <<selected_items, share_level, portal, nextId, idx, pc, fs, elapsed,
                 sleeps, req, results, published_services, others>>

\* the types of CONFIG["websites"], in order
WEBSITES == <<"portal", "server", "healthcheck">>

\* what requests.get may do: return a response (its status code, and whether
\* its text contains "succes"), or raise a RequestException
Responses ==
    [kind : {"response"}, code : {200, 500}, succes : BOOLEAN]
       \cup {[kind |-> "error", code |-> 0, succes |-> FALSE]}

check_website(type_, resp) ==
    IF resp.kind = "error"
       THEN [type |-> type_, status |-> "FAIL", error |-> "exception"]
    ELSE IF resp.code = 200
       THEN IF type_ = "healthcheck" /\ ~resp.succes
               THEN [type |-> type_, status |-> "FAIL",
                     error |-> "Unexpected response content."]
               ELSE [type |-> type_, status |-> "SUCCESS", error |-> ""]
    ELSE [type |-> type_, status |-> "FAIL", error |-> "Status code"]

\* `for site in CONFIG["websites"]`: one website check
CheckWebsite ==
    /\ health.pc = "websites"
    /\ \E resp \in Responses :
          LET i == Len(health.website_results) + 1
              after == Append(health.website_results, check_website(WEBSITES[i], resp))
          IN health' = [health EXCEPT
                           !.website_results = after,
                           !.pc = IF Len(after) = Len(WEBSITES) THEN "arcgis"
                                  ELSE "websites"]
    /\ UNCHANGED <<publishVars, audit>>

\* what the portal does during the publishing test: whether the connection
\* succeeds, whether an earlier test layer is found and its deletion returns,
\* whether the shapefile is found, what item.publish gives, and whether the
\* deletion of the published layer returns
TestRuns ==
    [connect : BOOLEAN, existing : BOOLEAN, deleteOld : BOOLEAN,
     shapefile : BOOLEAN, publish : {"item", "none", "raise"}, deleteNew : BOOLEAN]

publish_test_layer(run) ==
    IF ~run.connect \/ (run.existing /\ ~run.deleteOld)
       THEN [status |-> "FAIL", error |-> "exception"]
    ELSE IF ~run.shapefile
       THEN [status |-> "FAIL", error |-> "Shapefile not found in user content."]
    ELSE IF run.publish = "raise"
       THEN [status |-> "FAIL", error |-> "exception"]
    ELSE IF run.publish = "none"
       THEN [status |-> "FAIL", error |-> "Test layer failed to publish."]
    ELSE IF ~run.deleteNew
       THEN [status |-> "FAIL", error |-> "exception"]
    ELSE [status |-> "SUCCESS", error |-> ""]

\* arcgis_result = publish_test_layer()
PublishTest ==
    /\ health.pc = "arcgis"
    /\ \E run \in TestRuns :
          health' = [health EXCEPT !.arcgis_result = publish_test_layer(run),
                                   !.pc = "pdf"]
    /\ UNCHANGED <<publishVars, audit>>

\* pdf_report = generate_pdf_report(...): it returns the file name, or the
\* writing of the file raises, which nothing catches
GeneratePdf ==
    /\ health.pc = "pdf"
    /\ \/ health' = [health EXCEPT !.pdf_report = TRUE, !.pc = "email"]
       \/ health' = [health EXCEPT !.pc = "crashed"]
    /\ UNCHANGED <<publishVars, audit>>

\* the list failures of the script
Failures(website_results, arcgis_result) ==
    SelectSeq(website_results, LAMBDA r : r.status # "SUCCESS")
       \o (IF arcgis_result.status # "SUCCESS"
              THEN <<[type |-> "ArcGIS Publishing Test", status |-> arcgis_result.status,
                      error |-> arcgis_result.error]>>
              ELSE <<>>)

\* `if failures:` chooses the alert, else the "passed" message; send_email
\* catches whatever the sending raises
SendReport ==
    /\ health.pc = "email"
    /\ \E delivered \in BOOLEAN :
          LET failures == Failures(health.website_results, health.arcgis_result)
          IN health' = [health EXCEPT
                           !.emails = Append(@,
                               [kind |-> IF failures # <<>> THEN "alert" ELSE "passed",
                                attachment |-> health.pdf_report,
                                delivered |-> delivered]),
                           !.pc = "done"]
    /\ UNCHANGED <<publishVars, audit>>

InitHealth ==
    /\ PublishNotStarted
    /\ health = HealthStart
    /\ audit = AuditStart(<<>>)

NextHealth ==
    \/ CheckWebsite
    \/ PublishTest
    \/ GeneratePdf
    \/ SendReport

SpecHealth == InitHealth /\ [][NextHealth]_vars

\* ---- the user loop of user_management.py ----
\* Times are counted in hours: user.lastLogin is the hour of the last login
\* (the portal gives milliseconds), or -1 for a user who never logged in.

\* how long before `now` the last login was: a login in the future of the
\* script's clock, one just made, and the ages around the threshold
Ages ==
    {-1, 0,
     inactive_threshold * DAY - 1, inactive_threshold * DAY,
     inactive_threshold * DAY + 1,
     (inactive_threshold + 1) * DAY - 1, (inactive_threshold + 1) * DAY}

\* what user.items() does: it returns n items, or it raises
ItemLookups ==
    [raises : {FALSE}, n : {0, 1, ARCHIVE_ABOVE, ARCHIVE_ABOVE + 1}]
       \cup {[raises |-> TRUE, n |-> 0]}

Users(now) ==
    [lastLogin : {-1} \cup {now - a : a \in Ages}, items : ItemLookups]

\* (now - last_login_dt).days: the whole days of the difference
days_inactive(now, lastLogin) == (now - lastLogin) \div DAY

\* content_count after the try block around user.items()
content_count(items) == IF items.raises THEN 0 ELSE items.n

suggested_action(last_login, days, count) ==
    IF last_login = "Never Logged In" \/ days > inactive_threshold
       THEN IF count > 0
               THEN IF count > ARCHIVE_ABOVE
                       THEN "Archive content and delete user"
                       ELSE "Delete both content and user"
               ELSE "Delete user"
       ELSE "Do nothing"

\* the row of user_data for a user (days_inactive is None, here 0, for a user
\* who never logged in, and is then not looked at)
UserRow(user, now) ==
    LET last_login == IF user.lastLogin = -1 THEN "Never Logged In" ELSE "date"
        days == IF user.lastLogin = -1 THEN None
                ELSE days_inactive(now, user.lastLogin)
        count == content_count(user.items)
    IN [last_login |-> last_login, days_inactive |-> days, content_count |-> count,
        suggested_action |-> suggested_action(last_login, days, count)]

\* one turn of `for user in all_users`
ProcessUser ==
    /\ Len(audit.user_data) < Len(audit.all_users)
    /\ audit' = [audit EXCEPT !.user_data =
                    Append(@, UserRow(audit.all_users[Len(@) + 1], audit.now))]
    /\ UNCHANGED <<publishVars, health>>

InitAudit ==
    /\ PublishNotStarted
    /\ health = HealthStart
    /\ \E n \in 1..MaxUsers :
          \E all_users \in [1..n -> Users(AuditStart(<<>>).now)] :
             audit = AuditStart(all_users)

NextAudit == ProcessUser

SpecAudit == InitAudit /\ [][NextAudit]_vars

\* ---- what the properties speak about ----
Finished == req.outcome # "none"

Skipped == {"Failed", "SkippedTimeout", "SkippedConflict"}

Last(s) == s[Len(s)]

\* ids of the services an item.delete() call was made for
DeleteRequested(log) == {log[i].id : i \in 1..Len(log)}

\* the services of the requests that ended Published, in order
PublishedOf(res) ==
    LET sel == SelectSeq(res, LAMBDA x : x.outcome = "Published")
    IN [i \in 1..Len(sel) |-> sel[i].service]

\* ---- C1 ----
\* C1: when item.publish returned a service and the metadata update after it
\* failed, the failure is only logged: that publish is the request's last one,
\* the service is not asked to be deleted, no delete cycle starts after it, the
\* workflow goes on to configure the service and the request ends Published
\* with it.
C1_MetadataFailureOnlyLogged ==
    \A k \in 1..Len(req.pubLog) :
       LET c == req.pubLog[k]
       IN (c.svc # None /\ c.meta = "failed") =>
             /\ k = Len(req.pubLog)
             /\ c.svc \notin DeleteRequested(req.deleteLog)
             /\ req.cycles = c.cycles
             /\ IF Finished
                   THEN req.outcome = "Published" /\ req.service = c.svc
                   ELSE pc \in {"config", "share"}

\* ---- C2 ----
\* C2 as stated: a request whose deletion-confirmation poll timed out ends
\* SkippedTimeout and has made no publish call at all.
C2_TimeoutMeansNoPublishAtAll ==
    req.timeoutAt # -1 => req.outcome = "SkippedTimeout" /\ req.pubLog = <<>>

\* C2 as amended: a request whose deletion-confirmation poll timed out ends
\* there as SkippedTimeout with no service recorded: no publish call is made
\* after the timeout (none at all when the poll before the first publish timed
\* out; the one failed publish when the poll of the retry cycle timed out).
C2_TimeoutEndsRequest ==
    req.timeoutAt # -1 =>
       /\ Finished
       /\ req.outcome = "SkippedTimeout"
       /\ Len(req.pubLog) = req.timeoutAt
       /\ req.timeoutAt <= 1
       /\ \A k \in 1..Len(req.pubLog) : req.pubLog[k].ret = None
       /\ req.service = None
       /\ published_services = PublishedOf(results)

C2_Witness ==
    /\ req.existing
    /\ req.timeoutAt = 0
    /\ req.outcome = "SkippedTimeout"
    /\ req.pubLog = <<>>

\* ---- C3 ----
\* C3 as stated: a request with a pre-existing match in which an item.delete()
\* call failed ends Failed, has made no publish call at all and has no entry in
\* published_services.
C3_DeleteFailureMeansNoPublishAtAll ==
    (req.existing /\ req.delFailAt # -1) =>
       /\ req.outcome = "Failed"
       /\ req.pubLog = <<>>
       /\ req.service = None

\* C3 as amended: a request in which an item.delete() call failed ends there as
\* Failed: the failing call is the last delete call, no publish call is made
\* after it (none at all when the deletion before the first publish failed) and
\* the request has no entry in published_services.
C3_DeleteFailureEndsRequest ==
    req.delFailAt # -1 =>
       /\ Finished
       /\ req.outcome = "Failed"
       /\ Len(req.pubLog) = req.delFailAt
       /\ req.delFailAt <= 1
       /\ ~Last(req.deleteLog).ok
       /\ \A k \in 1..Len(req.pubLog) : req.pubLog[k].ret = None
       /\ req.service = None
       /\ published_services = PublishedOf(results)

C3_Witness ==
    /\ req.existing
    /\ req.delFailAt = 0
    /\ req.outcome = "Failed"
    /\ req.pubLog = <<>>

\* ---- C4 ----
\* C4: a request makes at most two publish calls, the second only after the
\* first returned nothing and exactly one more delete cycle whose poll ended on
\* an empty query; when the second returns nothing too, no delete or publish
\* follows and the request ends SkippedConflict with no service recorded.
C4_SingleRetry ==
    /\ Len(req.pubLog) <= 2
    /\ req.cycles <= (IF req.existing THEN 2 ELSE 1)
    /\ Len(req.pubLog) = 2 =>
          /\ req.pubLog[1].ret = None
          /\ req.pubLog[2].cycles = req.pubLog[1].cycles + 1
          /\ req.pubLog[2].lastQuery = "empty"
    /\ (Len(req.pubLog) = 2 /\ req.pubLog[2].ret = None) =>
          /\ req.cycles = req.pubLog[2].cycles
          /\ Len(req.deleteLog) = req.pubLog[2].deletes
          /\ IF Finished
                THEN /\ req.outcome = "SkippedConflict"
                     /\ req.service = None
                     /\ published_services = PublishedOf(results)
                ELSE pc = "report"

C4_Witness ==
    /\ Len(req.pubLog) = 2
    /\ req.pubLog[2].ret = None
    /\ req.outcome = "SkippedConflict"

\* ---- C5 ----
\* C5: whenever the workflow is about to call publish (first attempt or retry),
\* at most one service with the request's title is in the portal, and none of
\* the matches that were there when the request began is: each was asked to be
\* deleted by the workflow, in this request or in an earlier one.
C5_AtMostOneAtPublish ==
    pc \in {"publish1", "publish2"} =>
       /\ Cardinality(Matches(portal, service_name)) <= 1
       /\ req.preMatches \cap Matches(portal, service_name) = {}
       /\ req.preMatches \subseteq
             {req.deleteLog[i].id : i \in {j \in 1..Len(req.deleteLog) : req.deleteLog[j].ok}}
             \cup req.prePending

C5_Witness ==
    /\ pc = "publish1"
    /\ Cardinality(req.preMatches) = 2
    /\ Len(req.deleteLog) = 2

\* ---- C6 ----
\* C6: when the existence query at the head of a request finds no match,
\* delete_existing_service is not entered and no item.delete() call is made
\* before the first publish call of that request.
C6_NoDeleteBeforePublish ==
    (req.lastQuery # "none" /\ ~req.existing) =>
       IF req.pubLog = <<>>
          THEN req.cycles = 0 /\ req.deleteLog = <<>>
          ELSE req.pubLog[1].cycles = 0 /\ req.pubLog[1].deletes = 0

C6_Witness ==
    /\ ~req.existing
    /\ Len(req.pubLog) = 1
    /\ req.outcome = "Published"

\* ---- C7 ----
\* C7: when a pre-existing match was found, deleted and confirmed absent, and
\* the publish call then returned a service, that publish came after an empty
\* existence query, it is the only publish call of the request, and the request
\* ends Published.
C7_PublishedOnceAfterConfirmedAbsence ==
    (req.existing /\ Len(req.pubLog) >= 1 /\ req.pubLog[1].svc # None) =>
       /\ req.pubLog[1].lastQuery = "empty"
       /\ Len(req.pubLog) = 1
       /\ Finished => req.outcome = "Published"

\* ---- C8 ----
\* C8: when the first publish call returned nothing and the second one, after
\* the retry cycle, returned a service, the request ends Published and that
\* service is the one configured, shared and appended to published_services.
C8_RetryPublishes ==
    (Len(req.pubLog) = 2 /\ req.pubLog[1].svc = None /\ req.pubLog[2].svc # None) =>
       IF Finished
          THEN /\ req.outcome = "Published"
               /\ req.service = req.pubLog[2].svc
               /\ published_services # <<>>
               /\ Last(published_services) = req.pubLog[2].svc
          ELSE pc \in {"config", "share"} /\ fs = req.pubLog[2].svc

\* ---- C9 ----
\* C9: once publish_feature_service has returned a service, a failure of the
\* definition update or of the share call is only logged: after a failed
\* definition update the share call is still made, the request ends Published
\* with that service, and published_services holds the service of every
\* request that ended Published, in order.
C9_ConfigurationFailuresOnlyLogged ==
    /\ published_services = PublishedOf(results)
    /\ (req.defn = "failed" \/ req.share = "failed") =>
          IF Finished
             THEN /\ req.outcome = "Published"
                  /\ req.share # "none"
                  /\ req.service = Last(req.pubLog).ret
                  /\ req.service # None
                  /\ Last(published_services) = req.service
             ELSE pc = "share" /\ fs = Last(req.pubLog).ret

C9_Witness ==
    /\ req.defn = "failed"
    /\ req.share = "failed"
    /\ req.outcome = "Published"

\* ---- C10 ----
\* C10: the requests are processed one at a time in selection order, and a
\* request that ends Failed, SkippedTimeout or SkippedConflict leaves the
\* script at the head of the loop for the next selected item (or at the end of
\* the loop after the last one): every item is still processed.
C10_SkipsDoNotAbort ==
    /\ Len(results) = idx - 1
    /\ \A i \in 1..Len(results) : results[i].name = selected_items[i]
    /\ req.outcome \in Skipped =>
          pc = IF idx <= Len(selected_items) THEN "check" ELSE "done"
    /\ pc = "done" => Len(results) = Len(selected_items)

C10_Witness ==
    /\ Len(selected_items) = 2
    /\ Len(results) = 2
    /\ results[1].outcome \in Skipped
    /\ results[2].outcome = "Published"

\* ---- C11 ----
\* C11: no error raised by a portal call made for a request ends the script:
\* the script is never stopped by an uncaught exception.
C11_NoUncaughtError == pc # "crashed"

\* ---- C12 ----
\* C12: every share call is made with everyone = true for the share level
\* "public", with everyone = false and org = true for "org", and with
\* everyone = false and org = false for any other level.
C12_ShareMapping ==
    req.share # "none" =>
       /\ share_level = "public" => req.shareArgs.everyone
       /\ share_level = "org" => ~req.shareArgs.everyone /\ req.shareArgs.org
       /\ share_level \notin {"public", "org"} =>
             ~req.shareArgs.everyone /\ ~req.shareArgs.org

C12_Witness ==
    /\ req.outcome = "Published"
    /\ share_level = "private"
    /\ req.shareArgs = [everyone |-> FALSE, org |-> FALSE]

\* ---- C13 ----
\* C13: with a second client publishing to the portal, nothing in the workflow
\* excludes a publish call made while a service of the name exists: at the
\* publish call the script is never held back, whatever the portal holds, the
\* other client is not held back while the script stands between its last
\* existence query and its publish call, and a publish call made after an empty
\* existence query while a service of the name exists is one the other client
\* has slipped in front of.
C13_NothingExcludesRace ==
    /\ pc \in {"publish1", "publish2"} => ENABLED publish_feature_service
    /\ (pc \in {"publish1", "publish2"} /\ others < MaxOther) =>
          ENABLED OtherActorPublishes
    /\ \A k \in 1..Len(req.pubLog) :
          (req.pubLog[k].present /\ req.pubLog[k].lastQuery = "empty") => others > 0

\* the other client published the name after the existence check of line 188
\* found nothing and before the publish call of line 202
C13_Witness ==
    /\ ~req.existing
    /\ req.pubLog # <<>>
    /\ req.pubLog[1].cycles = 0
    /\ req.pubLog[1].lastQuery = "empty"
    /\ req.pubLog[1].present
    /\ others > 0

\* ---- C14 ----
InWait == pc \in {"wait1", "wait2"}

\* C14: wait_for_service_deletion makes its first existence query at once, and
\* each later one after a sleep of 5 seconds: it returns True as soon as a
\* query finds no match, it sleeps only after a query that found a match, and
\* it returns False only once 180 seconds have passed, every query it made until
\* then having found a match.
C14_PollBehaviour ==
    /\ [](InWait =>
             /\ sleeps * INTERVAL <= elapsed
             /\ (sleeps = 0) => (elapsed = 0 /\ WithinTimeout(elapsed))
             /\ (sleeps > 0) => (req.lastQuery = "match"))
    /\ [][/\ (~InWait /\ InWait') => (sleeps' = 0 /\ elapsed' = 0)
          /\ (InWait /\ pc' \in {"publish1", "publish2"}) =>
                (WithinTimeout(elapsed) /\ req'.lastQuery = "empty")
          /\ (InWait /\ sleeps' = sleeps + 1) =>
                /\ WithinTimeout(elapsed)
                /\ req'.lastQuery = "match"
                /\ elapsed' >= Clock(elapsed + INTERVAL)
                /\ pc' = pc
          /\ (InWait /\ req'.timeoutAt # -1) =>
                /\ elapsed >= TIMEOUT
                /\ sleeps >= 1
                /\ req.lastQuery = "match"
                /\ req'.lastQuery = "match"
                /\ req'.outcome = "SkippedTimeout"]_vars

\* the poll has slept 36 times, every query found the service, and the 180
\* seconds have passed
C14_Witness ==
    /\ InWait
    /\ sleeps = TIMEOUT \div INTERVAL
    /\ ~WithinTimeout(elapsed)
    /\ req.lastQuery = "match"

\* ---- C15 ----
Terminated == pc \in {"done", "crashed"}

\* the most sleeps of one poll: timeout / interval
MaxSleeps == TIMEOUT \div INTERVAL

\* how far the loop body still is from its end, at most
PhaseRank(at) ==
    CASE at = "check" -> 9
      [] at = "delete1" -> 8
      [] at = "wait1" -> 7
      [] at = "publish1" -> 6
      [] at = "delete2" -> 5
      [] at = "wait2" -> 4
      [] at = "publish2" -> 3
      [] at = "config" -> 2
      [] at = "report" -> 2
      [] at = "share" -> 1
      [] OTHER -> 0

PerPhase == MaxSleeps + 2

PerItem == 10 * PerPhase

\* a bound on the steps the script still takes: it falls with every step
Rank ==
    IF Terminated THEN 0
    ELSE (Len(selected_items) + 1 - idx) * PerItem + PhaseRank(pc) * PerPhase
         + (IF InWait THEN MaxSleeps + 1 - sleeps ELSE 0)

\* C15: the processing of every request terminates: a poll sleeps at most
\* 36 times, a request runs at most two delete+poll cycles and makes at most
\* two publish calls, the script is never stuck before the end of the list,
\* every step brings it nearer to that end, and at the end every selected item
\* has got its result.
C15_Terminates ==
    /\ [](/\ sleeps <= MaxSleeps
          /\ req.cycles <= 2
          /\ Len(req.pubLog) <= 2
          /\ Rank >= 0
          /\ ~Terminated => ENABLED Next
          /\ (pc = "done") => (/\ idx = Len(selected_items) + 1
                               /\ Len(results) = Len(selected_items)))
    /\ [][Rank' < Rank]_vars

\* the end of a list of two items, reached although the poll of the first item
\* ran for the whole 180 seconds
C15_Witness ==
    /\ pc = "done"
    /\ Len(selected_items) = 2
    /\ Len(results) = 2
    /\ results[1].outcome = "SkippedTimeout"

\* ---- C16 ----
\* the item.delete() calls of the latest delete_existing_service
LatestCalls(before, after) == SubSeq(after, Len(before) + 1, Len(after))

\* C16: delete_existing_service asks for the deletion of the matches in search
\* order and stops at the first item.delete() that raises: it then returns
\* False, the matches after the failing one get no delete request and stay as
\* they were, and the matches deleted before it stay deleted; it returns True
\* when every match was deleted or the search found none.  A service whose
\* deletion was accepted is never live again.
C16_DeleteStopsAtFirstFailure ==
    /\ [](\A i \in 1..Len(req.deleteLog) :
             req.deleteLog[i].ok =>
                ~\E s \in portal : s.id = req.deleteLog[i].id /\ s.st = "live")
    /\ [][(pc \in {"delete1", "delete2"} /\ pc' # "crashed") =>
            LET calls == LatestCalls(req.deleteLog, req'.deleteLog)
                sr == req'.lastSearch
                n == Len(calls)
            IN /\ req'.cycles = req.cycles + 1
               /\ sr = Search(portal', service_name, DELETE_MAX_ITEMS)
               /\ n <= Len(sr)
               /\ \A i \in 1..n : calls[i].id = sr[i]
               /\ \A i \in 1..(n - 1) : calls[i].ok
               /\ \A i \in 1..n :
                     calls[i].ok => \E s \in portal' :
                                       s.id = sr[i] /\ s.st = "deleting"
               /\ IF n > 0 /\ ~calls[n].ok
                     THEN /\ req'.delRet = "False"
                          /\ req'.outcome = "Failed"
                          /\ \A j \in (n + 1)..Len(sr) :
                                \E s \in portal : s.id = sr[j] /\ s \in portal'
                     ELSE /\ req'.delRet = "True"
                          /\ n = Len(sr)
                          /\ pc' = AfterDelete(pc)]_vars

\* the search found two services, the deletion of the first one raised, and the
\* second one is still live
C16_Witness ==
    /\ req.delRet = "False"
    /\ Len(req.lastSearch) = 2
    /\ Len(req.deleteLog) = 1
    /\ ~req.deleteLog[1].ok
    /\ \E s \in portal : s.id = req.lastSearch[2] /\ s.st = "live"

\* ---- C17 ----
\* C17: in the health-check run the only email is sent after the website
\* checks, the publishing test and the PDF generation have completed, and no
\* second one follows: it is the failure alert if and only if a website check
\* has a status other than SUCCESS or the publishing test has, and the "passed"
\* email otherwise; the run ends normally whether or not the sending worked.
C17_OneEmail ==
    LET failed == \/ \E i \in 1..Len(health.website_results) :
                        health.website_results[i].status # "SUCCESS"
                  \/ health.arcgis_result.status # "SUCCESS"
    IN /\ Len(health.emails) <= 1
       /\ (health.pc = "done") <=> (Len(health.emails) = 1)
       /\ health.emails # <<>> =>
             /\ Len(health.website_results) = Len(WEBSITES)
             /\ health.arcgis_result.status \in {"SUCCESS", "FAIL"}
             /\ health.pdf_report
             /\ health.emails[1].attachment
             /\ (health.emails[1].kind = "alert") <=> failed
             /\ (health.emails[1].kind = "passed") <=> ~failed

\* every website check succeeded, the publishing test failed, the alert was
\* chosen, its sending failed, and the run has ended normally
C17_Witness ==
    /\ health.pc = "done"
    /\ \A i \in 1..Len(health.website_results) :
          health.website_results[i].status = "SUCCESS"
    /\ health.arcgis_result.status = "FAIL"
    /\ health.emails = <<[kind |-> "alert", attachment |-> TRUE, delivered |-> FALSE]>>

\* ---- C18 ----
\* the suggested action for a user for whom an action is due
ActionByContent(user) ==
    IF user.items.raises \/ user.items.n = 0 THEN "Delete user"
    ELSE IF user.items.n <= ARCHIVE_ABOVE THEN "Delete both content and user"
    ELSE "Archive content and delete user"

\* C18 as stated: the suggested action is "Do nothing" unless the user never
\* logged in or the time since the last login is more than 70 days; otherwise
\* it goes by the content count, a failed lookup counting as 0 items.
C18_ActionAfterSeventyDays ==
    \A i \in 1..Len(audit.user_data) :
       LET user == audit.all_users[i]
           due == \/ user.lastLogin = -1
                  \/ audit.now - user.lastLogin > inactive_threshold * DAY
       IN audit.user_data[i].suggested_action =
             IF due THEN ActionByContent(user) ELSE "Do nothing"

\* C18 as amended: the suggested action is "Do nothing" unless the user never
\* logged in or the whole days since the last login, the part of a day being
\* dropped, are more than 70, that is unless the last login is at least 71
\* days back; otherwise it goes by the content count ("Delete user" for 0,
\* "Delete both content and user" for 1 to 5, "Archive content and delete
\* user" above 5), a failed lookup counting as 0 items.
C18_ActionAfterSeventyWholeDays ==
    \A i \in 1..Len(audit.user_data) :
       LET user == audit.all_users[i]
           due == \/ user.lastLogin = -1
                  \/ audit.now - user.lastLogin >= (inactive_threshold + 1) * DAY
       IN audit.user_data[i].suggested_action =
             IF due THEN ActionByContent(user) ELSE "Do nothing"

\* a user who logged in 70 days and 23 hours ago and owns six items is left
\* alone, and a user who never logged in and whose content lookup failed is to
\* be deleted
C18_Witness ==
    /\ Len(audit.user_data) = 2
    /\ audit.now - audit.all_users[1].lastLogin = (inactive_threshold + 1) * DAY - 1
    /\ audit.all_users[1].items.n = ARCHIVE_ABOVE + 1
    /\ audit.user_data[1].suggested_action = "Do nothing"
    /\ audit.all_users[2].lastLogin = -1
    /\ audit.all_users[2].items.raises
    /\ audit.user_data[2].suggested_action = "Delete user"
====
